---- MODULE Spec2Model ----
(***************************************************************************)
(* State-machine model of the RabbitMQ conversion workers                  *)
(* (convert_pdf_worker.py, convert_pdf_to_pptx.py) and of the producer     *)
(* send_job.py: the broker queue with prefetch and manual acknowledgement, *)
(* the consume loop, callback / process_job step by step, termination      *)
(* signals, kills and restarts of the worker process, the object store     *)
(* and the /tmp staging files.                                             *)
(*                                                                         *)
(* Strings are sequences of one-character strings, so that Path(...).name, *)
(* Path(...).suffix, str.lower() and os.path.basename are computed, not    *)
(* assumed.  The broker channel and the local filesystem are reliable      *)
(* while a callback runs; the object store and the converters may fail.    *)
(***************************************************************************)
EXTENDS Naturals, Sequences, FiniteSets

VARIABLES variant,    \* which worker script runs: "unified" or "pptx"
          queue,      \* messages ready in the durable queue, head first
          unacked,    \* delivered and not yet resolved, as the broker sees it
          inbox,      \* delivered to the consumer, callback not yet started
          published,  \* number of messages published so far
          consuming,  \* the consumer is registered (not cancelled)
          conn,       \* the broker connection of the worker process
          interrupts, \* termination signals and kills so far
          pc,         \* position of the worker process
          body,       \* body handed to the current / last callback
          job,        \* locals of the current / last process_job call
          trace,      \* calls issued during the current / last delivery
          storage,    \* objects of the S3 store
          uploads,    \* history: the uploads that succeeded, and which recurred
          files       \* files present under /tmp

vars == <<variant, queue, unacked, inbox, published, consuming, conn, interrupts,
          pc, body, job, trace, storage, uploads, files>>

\* ------------------------------------------------------------------ bounds
MaxMsgs == 2      \* messages published in one behaviour
MaxQueue == 2     \* messages waiting in the queue at once
MaxInterrupts == 1    \* termination signals and kills in one behaviour

\* ------------------------------------------------------------- characters
EmptyStr == <<>>

Max(S) == CHOOSE x \in S : \A y \in S : y <= x

LastIndexOf(s, c) ==
    LET I == {i \in 1..Len(s) : s[i] = c}
    IN  IF I = {} THEN 0 ELSE Max(I)

\* str.lower() on the letters the keys use
LowerChar(c) ==
    CASE c = "D" -> "d"
      [] c = "O" -> "o"
      [] c = "C" -> "c"
      [] c = "X" -> "x"
      [] c = "P" -> "p"
      [] c = "T" -> "t"
      [] OTHER   -> c

\* an extension used as it is written, without .lower()
Lower_AsWritten(s) == s

Lower(s) == [i \in 1..Len(s) |-> LowerChar(s[i])]

\* os.path.basename: everything after the last "/"
Basename(s) == SubSeq(s, LastIndexOf(s, "/") + 1, Len(s))

\* pathlib drops trailing "/" and "." components before taking the last one
RECURSIVE StripTrailing(_)
StripTrailing(s) ==
    IF Len(s) = 0 THEN s
    ELSE IF s[Len(s)] = "/" THEN StripTrailing(SubSeq(s, 1, Len(s) - 1))
    ELSE IF s = <<".">> THEN EmptyStr
    ELSE IF Len(s) >= 2 /\ s[Len(s)] = "." /\ s[Len(s) - 1] = "/"
         THEN StripTrailing(SubSeq(s, 1, Len(s) - 2))
    ELSE s

\* Path(key).name
PathName(s) == Basename(StripTrailing(s))

\* Path(key).suffix: from the last "." of the name, unless the name starts
\* or ends with it
PathSuffix(s) ==
    LET name == PathName(s)
        i    == LastIndexOf(name, ".")
    IN  IF 1 < i /\ i < Len(name) THEN SubSeq(name, i, Len(name)) ELSE EmptyStr

TmpDir == <<"/", "t", "m", "p", "/">>

\* ------------------------------------------------------------ object keys
Bucket     == <<"b">>
KeyInPdf   == <<"i", "/", "a", ".", "p", "d", "f">>        \* stored
KeyMissing == <<"i", "/", "m", ".", "p", "d", "f">>        \* not stored
KeyInNamedDocx == <<"i", "/", "a", ".", "d", "o", "c", "x">>   \* stored, a PDF
KeyOutDocx == <<"o", "/", "a", ".", "d", "o", "c", "x">>
KeyOutDOCX == <<"o", "/", "a", ".", "p", "p", "t", "x", ".", "D", "O", "C", "X">>
KeyOutPptx == <<"o", "/", "a", ".", "p", "p", "t", "x">>
KeyOutXyz  == <<"o", "/", "a", ".", "x", "y", "z">>

DotDocx == <<".", "d", "o", "c", "x">>
DotPptx == <<".", "p", "p", "t", "x">>

MimeDocx == "application/vnd.openxmlformats-officedocument.wordprocessingml.document"
MimePptx == "application/vnd.openxmlformats-officedocument.presentationml.presentation"

\* Map file extension -> converter + MIME type
CONVERTERS ==
    [e \in {DotDocx, DotPptx} |->
        IF e = DotDocx THEN [func |-> "convert_to_docx", mime |-> MimeDocx]
                       ELSE [func |-> "convert_to_pptx", mime |-> MimePptx]]

NoConverter == [func |-> "", mime |-> ""]

\* a lookup that falls back to the first entry instead of None
ConvertersGet_DefaultDocx(ext) ==
    IF ext \in DOMAIN CONVERTERS THEN CONVERTERS[ext] ELSE CONVERTERS[DotDocx]

\* CONVERTERS.get(ext): the entry, or None
ConvertersGet(ext) ==
    IF ext \in DOMAIN CONVERTERS THEN CONVERTERS[ext] ELSE NoConverter

\* --------------------------------------------------------- message bodies
Fields == {"bucket", "inputKey", "outputKey"}

EmptyObj == [f \in {} |-> EmptyStr]

Obj(b, i, o) ==
    [f \in Fields |-> IF f = "bucket" THEN b ELSE IF f = "inputKey" THEN i ELSE o]

Without(obj, f) == [g \in (DOMAIN obj) \ {f} |-> obj[g]]

JsonBody(obj) == [kind |-> "object", obj |-> obj]
OtherBody(k)  == [kind |-> k, obj |-> EmptyObj]

NoBody == OtherBody("none")

\* "bad_utf8": bytes that do not decode; "bad_json": text json.loads rejects;
\* "array", "number": JSON values that are not objects
MalformedKinds == {"bad_utf8", "bad_json", "array", "number"}

Bodies ==
    {OtherBody(k) : k \in MalformedKinds}
    \cup {JsonBody(Obj(Bucket, i, o)) :
            i \in {KeyInPdf},
            o \in {KeyOutDocx, KeyOutDOCX, KeyOutPptx, KeyOutXyz}}
    \cup {JsonBody(Obj(Bucket, KeyMissing, KeyOutDocx)),
          JsonBody(Obj(Bucket, KeyInNamedDocx, KeyOutDocx))}
    \cup {JsonBody(Obj(Bucket, EmptyStr, KeyOutDocx)),
          JsonBody(Obj(Bucket, KeyInPdf, EmptyStr))}
    \cup {JsonBody(Without(Obj(Bucket, KeyInPdf, KeyOutDocx), f)) : f \in Fields}

\* ---------------------------------------------------------------- send_job
FmtDocx == <<"d", "o", "c", "x">>
FmtDOCX == <<"D", "O", "C", "X">>
FmtPptx == <<"p", "p", "t", "x">>
FmtXyz  == <<"x", "y", "z">>

KeyOutHidden == <<"o", "/", ".", "d", "o", "c", "x">>
KeyOutNoExt  == <<"o", "/", "a">>

\* the bucket used when no fourth argument is given
DefaultBucket == <<"pdf-converter-files">>

\* str.endswith
EndsWith(s, suffix) ==
    /\ Len(suffix) <= Len(s)
    /\ SubSeq(s, Len(s) - Len(suffix) + 1, Len(s)) = suffix

\* str(Path(key).with_suffix(ext)): ValueError for an empty name, otherwise the
\* suffix of the name is replaced, or ext is appended when there is none
WithSuffix(key, ext) ==
    LET p == StripTrailing(key)
    IN  IF Basename(p) = EmptyStr
        THEN [ok |-> FALSE, key |-> EmptyStr]
        ELSE [ok |-> TRUE,
              key |-> SubSeq(p, 1, Len(p) - Len(PathSuffix(key))) \o ext]

\* the command lines tried: sys.argv[1:]
SendArgs ==
    {<<FmtDocx, KeyInPdf>>,
     <<FmtDocx, KeyInPdf, KeyOutDocx>>,
     <<FmtDocx, KeyInPdf, KeyOutDocx, Bucket>>,
     <<FmtDOCX, KeyInPdf, KeyOutXyz, Bucket>>,
     <<FmtDocx, KeyInPdf, KeyOutNoExt, Bucket>>,
     <<FmtDocx, KeyInPdf, KeyOutHidden, Bucket>>,
     <<FmtDocx, KeyInPdf, EmptyStr, Bucket>>,
     <<FmtPptx, KeyInPdf, KeyOutDocx, Bucket>>,
     <<FmtPptx, KeyInPdf, KeyOutPptx, Bucket>>,
     <<FmtXyz, KeyInPdf, KeyOutXyz, Bucket>>}

\* the script from its arguments to basic_publish: the bodies it publishes
\* (none when it exits or raises before)
SendJob(argv) ==
    IF Len(argv) < 3 THEN <<>>                              \* usage, sys.exit(1)
    ELSE
      LET format_type  == Lower(argv[1])
          input_key    == argv[2]
          bucket       == IF Len(argv) > 3 THEN argv[4] ELSE DefaultBucket
          expected_ext == <<".">> \o format_type
          fixed        == IF EndsWith(Lower(argv[3]), expected_ext)
                          THEN [ok |-> TRUE, key |-> argv[3]]
                          ELSE WithSuffix(argv[3], expected_ext)
      IN  IF format_type \notin {FmtDocx, FmtPptx} THEN <<>>     \* sys.exit(1)
          ELSE IF ~fixed.ok THEN <<>>                            \* ValueError
          ELSE <<JsonBody(Obj(bucket, input_key, fixed.key))>>

\* what each of the command lines publishes, computed once
SendJobRuns == {SendJob(argv) : argv \in SendArgs}

SendJobBodies == {out[1] : out \in {o \in SendJobRuns : o # <<>>}}

AllBodies == Bodies \cup SendJobBodies

\* ------------------------------------------------- results and exceptions
Ok == [ok |-> TRUE, type |-> "", code |-> ""]

Raise(type, code) == [ok |-> FALSE, type |-> type, code |-> code]

\* what the trace records of a call's result
ResOf(r) ==
    IF r.ok THEN "ok"
    ELSE IF r.type = "ClientError" THEN r.code
    ELSE "error"

Event(op, res) == [op |-> op, res |-> res]

Ops(t) == {t[i].op : i \in 1..Len(t)}

\* ---------------------------------------------------- store and /tmp files
PdfA == [fmt |-> "pdf", of |-> "A"]

InitStorage ==
    {[bucket |-> Bucket, key |-> KeyInPdf, content |-> PdfA, ctype |-> "application/pdf"],
     [bucket |-> Bucket, key |-> KeyInNamedDocx, content |-> PdfA,
      ctype |-> "application/pdf"]}

Stored(st, b, k) == \E o \in st : o.bucket = b /\ o.key = k

ObjectAt(st, b, k) == CHOOSE o \in st : o.bucket = b /\ o.key = k

Put(st, b, k, c, t) ==
    {o \in st : ~(o.bucket = b /\ o.key = k)}
        \cup {[bucket |-> b, key |-> k, content |-> c, ctype |-> t]}

Exists(fs, path) == \E f \in fs : f.path = path

FileAt(fs, path) == CHOOSE f \in fs : f.path = path

WriteFile(fs, path, c) ==
    {f \in fs : f.path # path} \cup {[path |-> path, content |-> c]}

Remove(fs, path) == {f \in fs : f.path # path}

\* a staging path whose name is empty is the staging directory itself
IsDir(path) == path = TmpDir

\* ------------------------------------------------------- the worker's calls
\* what the environment does to one storage call: nothing, a ClientError
\* other than 404 (e.g. 500), or an error that is no ClientError (connection)
StorageFaults == {"none", "client_error", "error"}

FaultOf(fault) ==
    IF fault = "client_error" THEN Raise("ClientError", "500")
    ELSE Raise("Exception", "")

\* a dispatcher without the existence check before the download
HeadObject_NoCheck(st, bucket, key, fault) ==
    IF bucket = EmptyStr \/ key = EmptyStr THEN Raise("Exception", "")
    ELSE IF fault # "none" THEN FaultOf(fault)
    ELSE Ok

\* s3_client.head_object(Bucket=bucket, Key=input_key): botocore rejects an
\* empty Bucket or Key before sending; an absent key is ClientError 404
HeadObject(st, bucket, key, fault) ==
    IF bucket = EmptyStr \/ key = EmptyStr THEN Raise("Exception", "")
    ELSE IF fault # "none" THEN FaultOf(fault)
    ELSE IF Stored(st, bucket, key) THEN Ok
    ELSE Raise("ClientError", "404")

\* s3_client.download_file(bucket, input_key, input_path)
DownloadFile(st, bucket, key, path, fault) ==
    IF bucket = EmptyStr \/ key = EmptyStr THEN Raise("Exception", "")
    ELSE IF fault # "none" THEN FaultOf(fault)
    ELSE IF ~Stored(st, bucket, key) THEN Raise("ClientError", "404")
    ELSE IF IsDir(path) THEN Raise("Exception", "")
    ELSE Ok

\* the converter: convert_to_docx / convert_to_pptx / convert_pdf2pptx
ConverterFormat(func) == IF func = "convert_to_docx" THEN "docx" ELSE "pptx"

\* a converter that refuses to write over an existing output file
Convert_NoOverwrite(fs, func, input_path, output_path, fails) ==
    IF fails \/ ~Exists(fs, input_path) \/ IsDir(output_path)
             \/ Exists(fs, output_path)
    THEN Raise("Exception", "")
    ELSE IF FileAt(fs, input_path).content.fmt # "pdf" THEN Raise("Exception", "")
    ELSE Ok

\* the converters open input_path as a PDF and write output_path
Convert(fs, func, input_path, output_path, fails) ==
    IF fails \/ ~Exists(fs, input_path) \/ IsDir(output_path)
    THEN Raise("Exception", "")
    ELSE IF FileAt(fs, input_path).content.fmt # "pdf" THEN Raise("Exception", "")
    ELSE Ok

Converted(func, c) == [fmt |-> ConverterFormat(func), of |-> c.of]

\* s3_client.upload_file(output_path, bucket, output_key, ExtraArgs=...):
\* boto3 raises S3UploadFailedError, never ClientError
UploadFile(fs, path, bucket, key, fault) ==
    IF bucket = EmptyStr \/ key = EmptyStr \/ fault # "none" \/ ~Exists(fs, path)
    THEN Raise("Exception", "")
    ELSE Ok

\* the except clauses of process_job: the resolution call each one issues
AckCall == Event("basic_ack", "ack")
NackDrop == Event("basic_nack", "requeue=False")
NackRequeue == Event("basic_nack", "requeue=True")

\* except clauses that treat 404 like any other ClientError
ExceptClause_NackOn404(exc) == NackDrop

\* except clauses that requeue on a ClientError other than 404
ExceptClause_Requeue(exc) ==
    IF exc.type = "ClientError"
    THEN IF exc.code = "404" THEN AckCall ELSE NackRequeue
    ELSE NackDrop

\* except clauses that acknowledge on every ClientError
ExceptClause_AckAnyClientError(exc) ==
    IF exc.type = "ClientError" THEN AckCall ELSE NackDrop

ExceptClause(exc) ==
    IF exc.type = "ClientError"
    THEN IF exc.code = "404" THEN AckCall ELSE NackDrop
    ELSE NackDrop

\* a 404 branch that acks and then falls through to the nack
HandlerCalls_FallThrough(exc) ==
    IF exc.type = "ClientError" /\ exc.code = "404"
    THEN <<AckCall, NackDrop>>
    ELSE <<NackDrop>>

\* the resolution calls issued once an exception is raised in the try block:
\* exactly one except clause runs, and it issues one call
HandlerCalls(exc) == <<ExceptClause(exc)>>

\* the broker's side of a resolution call for the unacked message
QueueAfter(call, q, u) == IF call = NackRequeue THEN u \o q ELSE q

\* staging paths and converter of a job
NoJob ==
    [bucket |-> EmptyStr, input_key |-> EmptyStr, output_key |-> EmptyStr,
     input_path |-> EmptyStr, output_path |-> EmptyStr, ext |-> EmptyStr,
     func |-> "", mime |-> ""]

\* locals that always take the PPTX content type
UnifiedLocals_PptxMime(data) ==
    LET ext  == Lower(PathSuffix(data["outputKey"]))
        info == ConvertersGet(ext)
    IN  [bucket |-> data["bucket"], input_key |-> data["inputKey"],
         output_key |-> data["outputKey"],
         input_path |-> TmpDir \o PathName(data["inputKey"]),
         output_path |-> TmpDir \o PathName(data["outputKey"]),
         ext |-> ext, func |-> info.func,
         mime |-> IF info.func = "" THEN "" ELSE MimePptx]

\* convert_pdf_worker.py: Path(key).name, suffix looked up in CONVERTERS
UnifiedLocals(data) ==
    LET ext  == Lower(PathSuffix(data["outputKey"]))
        info == ConvertersGet(ext)
    IN  [bucket |-> data["bucket"], input_key |-> data["inputKey"],
         output_key |-> data["outputKey"],
         input_path |-> TmpDir \o PathName(data["inputKey"]),
         output_path |-> TmpDir \o PathName(data["outputKey"]),
         ext |-> ext, func |-> info.func, mime |-> info.mime]

\* convert_pdf_to_pptx.py: os.path.basename, always pptx
PptxLocals(data) ==
    [bucket |-> data["bucket"], input_key |-> data["inputKey"],
     output_key |-> data["outputKey"],
     input_path |-> TmpDir \o Basename(data["inputKey"]),
     output_path |-> TmpDir \o Basename(data["outputKey"]),
     ext |-> EmptyStr, func |-> "convert_pdf2pptx", mime |-> MimePptx]

Locals(v, data) == IF v = "unified" THEN UnifiedLocals(data) ELSE PptxLocals(data)

\* the locals of every body that carries the three fields, computed once
JobLocals ==
    [v \in {"unified", "pptx"} |->
        [b \in {x \in AllBodies : x.kind = "object" /\ Fields \subseteq DOMAIN x.obj}
            |-> Locals(v, b.obj)]]

\* ----------------------------------------------------------------- broker
\* channel.basic_qos(prefetch_count=1)
PrefetchCount == 1

\* a consumer registered with auto_ack=True
AutoAck_On == TRUE

\* channel.basic_consume(..., auto_ack=False)
AutoAck == FALSE

\* a consumer on which basic_qos was never called: no limit
MayDeliver_NoQos(u) == TRUE

\* the broker hands over a message only below the prefetch limit
MayDeliver(u) == Len(u) < PrefetchCount

\* what the broker holds as unacknowledged after a delivery
UnackedAfterDeliver(u, m) == IF AutoAck THEN u ELSE Append(u, m)

\* the broker's side of a resolution call: the delivery in process is the
\* oldest unacknowledged one
UnackedAfter(u) == IF u = <<>> THEN u ELSE Tail(u)

Redelivered(u) == IF u = <<>> THEN u ELSE <<Head(u)>>

Exited == {"crashed", "killed", "stopped"}
InCallback == {"callback", "head", "download", "convert", "upload", "cleanup", "ack"}

\* ------------------------------------------------------------------- Init
Init ==
    /\ variant \in {"unified", "pptx"}
    /\ queue = <<>>
    /\ unacked = <<>>
    /\ inbox = <<>>
    /\ published = 0
    /\ consuming = TRUE
    /\ conn = "open"
    /\ interrupts = 0
    /\ pc = "idle"
    /\ body = NoBody
    /\ job = NoJob
    /\ trace = <<>>
    /\ storage = InitStorage
    /\ uploads = {}
    /\ files = {}

\* a producer publishes a persistent message
Publish ==
    /\ published < MaxMsgs
    /\ Len(queue) < MaxQueue
    /\ \E b \in Bodies : queue' = Append(queue, b)
    /\ published' = published + 1
    /\ UNCHANGED <<variant, unacked, inbox, consuming, conn, interrupts,
                   pc, body, job, trace, storage, uploads, files>>

\* the history of uploads after one more: what message, from what input
\* content, stored what object, and whether that had happened before
Recorded(ups, b, input, object) ==
    LET once  == [body |-> b, input |-> input, object |-> object, again |-> FALSE]
        twice == [once EXCEPT !.again = TRUE]
    IN  IF once \in ups \/ twice \in ups
        THEN (ups \ {once}) \cup {twice}
        ELSE ups \cup {once}

\* send_job.py is run: it publishes its job, or nothing
SendJobStep ==
    /\ published < MaxMsgs
    /\ Len(queue) < MaxQueue
    /\ \E out \in SendJobRuns :
         /\ queue' = queue \o out
         /\ published' = published + Len(out)
    /\ UNCHANGED <<variant, unacked, inbox, consuming, conn, interrupts,
                   pc, body, job, trace, storage, uploads, files>>

\* the callback has returned after issuing `call`
Returns(call) ==
    /\ trace' = Append(trace, call)
    /\ queue' = QueueAfter(call, queue, Redelivered(unacked))
    /\ unacked' = UnackedAfter(unacked)
    /\ pc' = "idle"

\* a step failed with exc inside the try block: the except clauses resolve
Fails(op, exc) ==
    LET calls == HandlerCalls(exc)
    IN  /\ trace' = Append(trace, Event(op, ResOf(exc))) \o calls
        /\ queue' = QueueAfter(calls[1], queue, Redelivered(unacked))
        /\ unacked' = UnackedAfter(unacked)
        /\ pc' = "idle"

\* what callback and the head of process_job do with a body, up to the try
\* block: "raise" (an exception leaves callback), "nack", or "try"
CallbackEntry(v, b) ==
    IF b.kind = "bad_utf8" THEN "raise"               \* UnicodeDecodeError
    ELSE IF b.kind = "bad_json" THEN "nack"           \* json.JSONDecodeError
    ELSE IF b.kind # "object" THEN "raise"            \* TypeError at data[...]
    ELSE IF ~(Fields \subseteq DOMAIN b.obj) THEN "raise"     \* KeyError
    ELSE IF v = "unified" /\ JobLocals[v][b].func = "" THEN "nack"
    ELSE "try"

\* the broker pushes the head of the queue to the registered consumer
Deliver ==
    /\ pc \notin Exited
    /\ consuming
    /\ queue # <<>>
    /\ MayDeliver(unacked)
    /\ inbox' = Append(inbox, Head(queue))
    /\ unacked' = UnackedAfterDeliver(unacked, Head(queue))
    /\ queue' = Tail(queue)
    /\ UNCHANGED <<variant, published, consuming, conn, interrupts,
                   pc, body, job, trace, storage, uploads, files>>

\* start_consuming dispatches the next delivery to callback
CallbackStart ==
    /\ pc = "idle"
    /\ inbox # <<>>
    /\ body' = Head(inbox)
    /\ inbox' = Tail(inbox)
    /\ job' = NoJob
    /\ trace' = <<>>
    /\ pc' = "callback"
    /\ UNCHANGED <<variant, queue, unacked, published, consuming, conn, interrupts,
                   storage, uploads, files>>

\* callback, and process_job up to the try block
ParseStep ==
    /\ pc = "callback"
    /\ LET entry == CallbackEntry(variant, body)
       IN  CASE entry = "raise" ->
                 \* the exception leaves start_consuming; main's finally closes
                 \* the connection (a failing close is swallowed) and the
                 \* broker takes back what was not resolved
                 /\ pc' = "crashed"
                 /\ queue' = unacked \o queue
                 /\ unacked' = <<>>
                 /\ inbox' = <<>>
                 /\ consuming' = FALSE
                 /\ \E closeFails \in BOOLEAN :
                      conn' = IF closeFails THEN "close_failed" ELSE "closed"
                 /\ UNCHANGED <<job, trace>>
            [] entry = "nack" ->
                 /\ Returns(NackDrop)
                 /\ job' = IF body.kind = "object" THEN JobLocals[variant][body] ELSE NoJob
                 /\ UNCHANGED <<inbox, consuming, conn>>
            [] OTHER ->
                 /\ pc' = "head"
                 /\ job' = JobLocals[variant][body]
                 /\ UNCHANGED <<queue, unacked, inbox, consuming, conn, trace>>
    /\ UNCHANGED <<variant, published, interrupts, body, storage, uploads, files>>

\* s3_client.head_object
HeadStep ==
    /\ pc = "head"
    /\ \E fault \in StorageFaults :
         LET r == HeadObject(storage, job.bucket, job.input_key, fault)
         IN  IF r.ok
             THEN /\ trace' = Append(trace, Event("head_object", "ok"))
                  /\ pc' = "download"
                  /\ UNCHANGED <<queue, unacked>>
             ELSE Fails("head_object", r)
    /\ UNCHANGED <<variant, inbox, published, consuming, conn, interrupts,
                   body, job, storage, uploads, files>>

\* s3_client.download_file
DownloadStep ==
    /\ pc = "download"
    /\ \E fault \in StorageFaults :
         LET r == DownloadFile(storage, job.bucket, job.input_key, job.input_path, fault)
         IN  IF r.ok
             THEN /\ trace' = Append(trace, Event("download_file", "ok"))
                  /\ files' = WriteFile(files, job.input_path,
                                  ObjectAt(storage, job.bucket, job.input_key).content)
                  /\ pc' = "convert"
                  /\ UNCHANGED <<queue, unacked>>
             ELSE /\ Fails("download_file", r)
                  /\ UNCHANGED files
    /\ UNCHANGED <<variant, inbox, published, consuming, conn, interrupts,
                   body, job, storage, uploads>>

\* converter_info["func"](input_path, output_path)
ConvertStep ==
    /\ pc = "convert"
    /\ \E fails \in BOOLEAN :
         LET r == Convert(files, job.func, job.input_path, job.output_path, fails)
         IN  IF r.ok
             THEN /\ trace' = Append(trace, Event("convert", "ok"))
                  /\ files' = WriteFile(files, job.output_path,
                                  Converted(job.func, FileAt(files, job.input_path).content))
                  /\ pc' = "upload"
                  /\ UNCHANGED <<queue, unacked>>
             ELSE /\ Fails("convert", r)
                  /\ UNCHANGED files
    /\ UNCHANGED <<variant, inbox, published, consuming, conn, interrupts,
                   body, job, storage, uploads>>

\* s3_client.upload_file with the ContentType of the converter
UploadStep ==
    /\ pc = "upload"
    /\ \E fault \in StorageFaults :
         LET r == UploadFile(files, job.output_path, job.bucket, job.output_key, fault)
         IN  IF r.ok
             THEN /\ trace' = Append(trace, Event("upload_file", "ok"))
                  /\ storage' = Put(storage, job.bucket, job.output_key,
                                    FileAt(files, job.output_path).content, job.mime)
                  /\ uploads' = Recorded(uploads, body,
                        ObjectAt(storage, job.bucket, job.input_key).content,
                        ObjectAt(storage', job.bucket, job.output_key))
                  /\ pc' = "cleanup"
                  /\ UNCHANGED <<queue, unacked>>
             ELSE /\ Fails("upload_file", r)
                  /\ UNCHANGED <<storage, uploads>>
    /\ UNCHANGED <<variant, inbox, published, consuming, conn, interrupts,
                   body, job, files>>

\* a try block that acknowledges without the cleanup loop before it
CleanupStep_AfterAck ==
    /\ pc = "cleanup"
    /\ pc' = "ack"
    /\ UNCHANGED <<variant, queue, unacked, inbox, published, consuming, conn,
                   interrupts, body, job, trace, storage, uploads, files>>

\* for path in (input_path, output_path): remove it if it exists
CleanupStep ==
    /\ pc = "cleanup"
    /\ files' = Remove(Remove(files, job.input_path), job.output_path)
    /\ trace' = Append(trace, Event("cleanup", "ok"))
    /\ pc' = "ack"
    /\ UNCHANGED <<variant, queue, unacked, inbox, published, consuming, conn,
                   interrupts, body, job, storage, uploads>>

\* ch.basic_ack at the end of the try block
AckStep ==
    /\ pc = "ack"
    /\ Returns(AckCall)
    /\ UNCHANGED <<variant, inbox, published, consuming, conn, interrupts,
                   body, job, storage, uploads, files>>

\* SIGINT / SIGTERM: shutdown() calls channel.stop_consuming(), which cancels
\* the consumer and hands back the deliveries whose callback has not started;
\* a running callback goes on
Signal ==
    /\ pc \notin Exited
    /\ consuming
    /\ interrupts < MaxInterrupts
    /\ interrupts' = interrupts + 1
    /\ consuming' = FALSE
    /\ queue' = (IF AutoAck THEN <<>> ELSE inbox) \o queue
    /\ inbox' = <<>>
    /\ unacked' = IF pc \in InCallback THEN Redelivered(unacked) ELSE <<>>
    /\ UNCHANGED <<variant, published, conn, pc, body, job, trace, storage, uploads, files>>

\* start_consuming returns once no consumer is left; main closes the
\* connection, swallowing a failure of the close, and the worker stops
StopStep ==
    /\ pc = "idle"
    /\ ~consuming
    /\ pc' = "stopped"
    /\ \E closeFails \in BOOLEAN :
         conn' = IF closeFails THEN "close_failed" ELSE "closed"
    /\ queue' = unacked \o queue
    /\ unacked' = <<>>
    /\ UNCHANGED <<variant, inbox, published, consuming, interrupts,
                   body, job, trace, storage, uploads, files>>

\* the worker process is stopped from outside (SIGKILL, power) at any point
\* after a delivery and before its resolution: the broker notices the lost
\* connection and takes back what was unresolved
Kill ==
    /\ pc \notin Exited
    /\ unacked # <<>>
    /\ interrupts < MaxInterrupts
    /\ interrupts' = interrupts + 1
    /\ pc' = "killed"
    /\ conn' = "lost"
    /\ consuming' = FALSE
    /\ queue' = unacked \o queue
    /\ unacked' = <<>>
    /\ inbox' = <<>>
    /\ body' = NoBody
    /\ job' = NoJob
    /\ trace' = <<>>
    /\ UNCHANGED <<variant, published, storage, uploads, files>>

\* the process is started again after it exited: main() connects, declares
\* the queue, sets the prefetch and registers the consumer
Restart ==
    /\ pc \in Exited
    /\ pc' = "idle"
    /\ conn' = "open"
    /\ consuming' = TRUE
    /\ body' = NoBody
    /\ job' = NoJob
    /\ trace' = <<>>
    /\ UNCHANGED <<variant, queue, unacked, inbox, published, interrupts, storage, uploads, files>>

Next ==
    \/ Publish
    \/ SendJobStep
    \/ Deliver
    \/ CallbackStart
    \/ ParseStep
    \/ HeadStep
    \/ DownloadStep
    \/ ConvertStep
    \/ UploadStep
    \/ CleanupStep
    \/ AckStep
    \/ Signal
    \/ StopStep
    \/ Kill
    \/ Restart

Spec == Init /\ [][Next]_vars

\* the broker and the worker make progress: whichever of their steps is
\* enabled (a delivery, the dispatch of a delivery, the next step of the
\* running job, the stop after a cancel, a restart after an exit) is eventually
\* taken; nothing obliges a producer to publish, a signal to arrive or the
\* process to be killed
Worker ==
    \/ Deliver
    \/ CallbackStart
    \/ ParseStep
    \/ HeadStep
    \/ DownloadStep
    \/ ConvertStep
    \/ UploadStep
    \/ CleanupStep
    \/ AckStep
    \/ StopStep
    \/ Restart

FairSpec == Spec /\ WF_vars(Worker)

\* ----------------------------------------------------------------- claims
ResolutionOps == {"basic_ack", "basic_nack"}
WorkOps == {"head_object", "download_file", "convert", "upload_file"}

\* the callback of the last delivery has ended: by returning or by an exception
Ended == body # NoBody /\ pc \in {"idle", "crashed", "stopped"} /\ inbox = <<>>

\* the resolution calls of the current / last delivery, in order
Resolutions == SelectSeq(trace, LAMBDA e : e.op \in ResolutionOps)

Succeeded(op) == \E i \in 1..Len(trace) : trace[i] = Event(op, "ok")

HasFields == body.kind = "object" /\ Fields \subseteq DOMAIN body.obj

ValidJob == HasFields /\ \A f \in Fields : body.obj[f] # EmptyStr

\* C1 (as claimed): once the callback has ended, neither staging file of the
\* job exists, whatever the outcome.
C1_CleanupOnEveryOutcome ==
    (Ended /\ HasFields) =>
        /\ ~Exists(files, job.input_path)
        /\ ~Exists(files, job.output_path)

\* C2 (as claimed): a job whose existence check reports not-found is resolved
\* by nack without requeue.
C2_MissingInputRejectDrop ==
    (Ended /\ Event("head_object", "404") \in {trace[i] : i \in 1..Len(trace)})
        => Resolutions = <<NackDrop>>

\* C2 (amended): a job whose existence check reports not-found (404) is
\* resolved by exactly one basic_ack: the message is removed, never requeued
\* and never nacked.
C2_MissingInputAcked ==
    (Ended /\ Event("head_object", "404") \in {trace[i] : i \in 1..Len(trace)})
        => /\ Resolutions = <<AckCall>>
           /\ unacked = <<>>

C2_Witness ==
    /\ Ended
    /\ job.input_key = KeyMissing
    /\ trace = <<Event("head_object", "404"), AckCall>>

\* C3 (as claimed): a malformed body is resolved by nack without requeue and
\* no storage call is issued.
C3_MalformedRejectDrop ==
    (Ended /\ body.kind \in MalformedKinds) => trace = <<NackDrop>>

\* C4 (as claimed): a parsed message with bucket, inputKey or outputKey absent
\* or empty is resolved by nack without requeue, with no download, conversion
\* or upload.
C4_MissingFieldRejectDrop ==
    (Ended /\ body.kind = "object" /\ ~ValidJob) =>
        /\ Resolutions = <<NackDrop>>
        /\ Ops(trace) \cap {"download_file", "convert", "upload_file"} = {}

\* C5: in the unified worker a valid job whose outputKey extension is not
\* .docx / .pptx issues no head_object, download, conversion or upload at any
\* point, and ends resolved by nack without requeue.
C5_UnsupportedFormatRejectDrop ==
    (variant = "unified" /\ ValidJob
        /\ Lower(PathSuffix(body.obj["outputKey"])) \notin {DotDocx, DotPptx}) =>
        /\ Ops(trace) \cap WorkOps = {}
        /\ pc \notin {"head", "download", "convert", "upload", "cleanup", "ack"}
        /\ Ended => trace = <<NackDrop>>

C5_Witness ==
    /\ variant = "unified"
    /\ Ended
    /\ body = JsonBody(Obj(Bucket, KeyInPdf, KeyOutXyz))
    /\ trace = <<NackDrop>>

\* C6: in the unified worker, once a job whose existence check, download,
\* conversion and upload all succeeded has ended, its message was resolved by
\* one basic_ack, the object at bucket/outputKey carries the content type of
\* the CONVERTERS entry of outputKey's extension, and neither staging file
\* exists.
C6_SuccessAcked ==
    (variant = "unified" /\ Ended /\ \A op \in WorkOps : Succeeded(op)) =>
        /\ Resolutions = <<AckCall>>
        /\ trace[Len(trace)] = AckCall
        /\ unacked = <<>>
        /\ Stored(storage, body.obj["bucket"], body.obj["outputKey"])
        /\ ObjectAt(storage, body.obj["bucket"], body.obj["outputKey"]).ctype
             = CONVERTERS[Lower(PathSuffix(body.obj["outputKey"]))].mime
        /\ ~Exists(files, job.input_path)
        /\ ~Exists(files, job.output_path)

C6_Witness ==
    /\ variant = "unified"
    /\ Ended
    /\ body = JsonBody(Obj(Bucket, KeyInPdf, KeyOutDOCX))
    /\ \A op \in WorkOps : Succeeded(op)
    /\ ObjectAt(storage, Bucket, KeyOutDOCX).ctype = MimeDocx

\* C7: a failure of the existence check, download, conversion or upload that
\* is not a 404 is followed at once by basic_nack(requeue=False), which ends
\* the job; and no delivery is ever nacked with requeue=True.
C7_FailuresDropNeverRequeue ==
    /\ \A i \in 1..Len(trace) : trace[i] # NackRequeue
    /\ \A i \in 1..Len(trace) :
         (trace[i].op \in WorkOps /\ trace[i].res \notin {"ok", "404"}) =>
            /\ Len(trace) = i + 1
            /\ trace[i + 1] = NackDrop
            /\ pc \in {"idle", "stopped"}
            /\ inbox = <<>> => unacked = <<>>

C7_Witness ==
    /\ Ended
    /\ Len(trace) = 5
    /\ trace[4] = Event("upload_file", "error")
    /\ trace[5] = NackDrop

C9_NoExceptionEscapesCallback == pc # "crashed"

\* C10 (as claimed): with the worker restarted whenever it exits, every
\* published message is eventually removed from the queue for good.
C10_EveryMessageEventuallyRemoved == <>[](queue = <<>> /\ unacked = <<>>)


\* C11: within one worker process at most one message is in flight (delivered
\* and not yet resolved): the broker never holds more than one unacknowledged
\* delivery, and while a callback runs the one unacknowledged delivery is the
\* message it processes and no further delivery waits at the consumer, so the
\* processing of the next message never begins before this one is resolved.
C11_AtMostOneInFlight ==
    /\ Len(unacked) <= 1
    /\ Len(inbox) <= 1
    /\ pc \in InCallback => (unacked = <<body>> /\ inbox = <<>>)
    /\ inbox # <<>> => (unacked = inbox /\ pc \notin InCallback)

\* a job is running while another message waits in the queue
C11_Witness ==
    /\ pc = "convert"
    /\ unacked = <<body>>
    /\ queue # <<>>
    /\ consuming

\* C12: after a termination signal (the consumer is cancelled while the process
\* runs) the worker closes the connection only when the delivery that was in
\* flight at the signal is resolved: at every step that closes the connection
\* of a signalled worker, no delivery is left unacknowledged.
C12_ResolvedBeforeClose ==
    [][(~consuming /\ pc \notin Exited /\ conn' \in {"closed", "close_failed"})
          => unacked = <<>>]_vars

\* C13: no message is lost before its outcome is decided. A step takes a
\* message away from the broker (ready or unacknowledged) only when the worker
\* issues basic_ack or basic_nack(requeue=False) in it, and then it takes
\* exactly the one message being processed; and a step in which the worker
\* process stops puts every delivery that was not resolved back at the head of
\* the queue, from where it is delivered again.
C13_NoMessageLost ==
    [][/\ Len(queue') + Len(unacked') < Len(queue) + Len(unacked) =>
            /\ Len(trace') > Len(trace)
            /\ trace'[Len(trace')] \in {AckCall, NackDrop}
            /\ unacked = <<body>>
            /\ unacked' = <<>>
            /\ queue' = queue
       /\ (pc \notin Exited /\ pc' \in Exited) =>
            /\ queue' = unacked \o queue
            /\ unacked' = <<>>]_vars

\* the only message ever published is in process again after the process was
\* killed during its first delivery (the staging file of that run is left)
C13_Witness ==
    /\ published = 1
    /\ interrupts = 1
    /\ pc = "head"
    /\ unacked = <<body>>
    /\ files # {}

\* C14: processing is idempotent under redelivery. Whenever the same message
\* is processed again after a run of it that uploaded, with the input object
\* unchanged: the upload of the later run stores the same object with the same
\* content type; no step of the later run fails because of what the earlier
\* run left behind (each step succeeds unless the store or the converter
\* fails); and the run that completed its four steps is resolved by basic_ack.
UploadedBefore(b) == \E u \in uploads : u.body = b

InputUnchanged ==
    \A u \in uploads :
        u.body = body =>
            /\ Stored(storage, job.bucket, job.input_key)
            /\ u.input = ObjectAt(storage, job.bucket, job.input_key).content

Rerun(at) == pc = at /\ UploadedBefore(body) /\ InputUnchanged

C14_IdempotentRedelivery ==
    /\ \A u, w \in uploads :
         (u.body = w.body /\ u.input = w.input) => u.object = w.object
    /\ Rerun("head") =>
         HeadObject(storage, job.bucket, job.input_key, "none").ok
    /\ Rerun("download") =>
         DownloadFile(storage, job.bucket, job.input_key, job.input_path, "none").ok
    /\ Rerun("convert") =>
         Convert(files, job.func, job.input_path, job.output_path, FALSE).ok
    /\ Rerun("upload") =>
         UploadFile(files, job.output_path, job.bucket, job.output_key, "none").ok
    /\ (Ended /\ (\E u \in uploads : u.body = body /\ u.again)
          /\ \A op \in WorkOps : Succeeded(op)) =>
         Resolutions = <<AckCall>>

\* the same message has been processed twice, both runs uploaded the same
\* object, which is the one in the store, and the second run has been
\* acknowledged
C14_Witness ==
    /\ Ended
    /\ Succeeded("upload_file")
    /\ \E u \in uploads :
         /\ u.body = body
         /\ u.again
         /\ u.object = ObjectAt(storage, job.bucket, job.output_key)
    /\ trace[Len(trace)] = AckCall

\* C15: in every job the steps occur in the fixed order existence check,
\* download, conversion, upload, cleanup, resolution: the k-th call of a
\* delivery is the k-th step of that order and is made only after every step
\* before it succeeded; a resolution call is the last call of the delivery; and
\* the basic_ack of a job whose upload succeeded comes sixth, after the upload
\* and the cleanup.
StepOrder == <<"head_object", "download_file", "convert", "upload_file", "cleanup">>

C15_FixedStepOrder ==
    \A i \in 1..Len(trace) :
        /\ trace[i].op \notin ResolutionOps =>
              /\ i <= Len(StepOrder)
              /\ trace[i].op = StepOrder[i]
              /\ \A j \in 1..(i - 1) : trace[j] = Event(StepOrder[j], "ok")
        /\ trace[i].op \in ResolutionOps => i = Len(trace)
        /\ (trace[i] = AckCall /\ Succeeded("upload_file")) =>
              /\ i = Len(StepOrder) + 1
              /\ \A j \in 1..Len(StepOrder) : trace[j] = Event(StepOrder[j], "ok")

\* a job ran all five steps and was acknowledged
C15_Witness ==
    /\ Ended
    /\ Len(trace) = 6
    /\ trace[4] = Event("upload_file", "ok")
    /\ trace[5] = Event("cleanup", "ok")
    /\ trace[6] = AckCall

\* C16: a job whose inputKey names no object in the store performs no
\* download, no conversion and no upload, creates no staging file and leaves
\* the object store unchanged: no step of its delivery changes the files or
\* the store, moves past the existence check or issues one of those calls.
MissingInput ==
    /\ pc \in {"callback", "head"}
    /\ HasFields
    /\ ~Stored(storage, body.obj["bucket"], body.obj["inputKey"])

C16_MissingInputTouchesNothing ==
    [][MissingInput =>
          /\ files' = files
          /\ storage' = storage
          /\ pc' \notin {"download", "convert", "upload", "cleanup", "ack"}
          /\ Ops(trace') \cap {"download_file", "convert", "upload_file"} = {}]_vars

\* the delivery of a job with a missing input has ended at the existence
\* check, with nothing staged and the store as it was
C16_Witness ==
    /\ pc = "idle"
    /\ HasFields
    /\ ~Stored(storage, body.obj["bucket"], body.obj["inputKey"])
    /\ Len(trace) = 2
    /\ trace[1] = Event("head_object", "404")
    /\ files = {}
    /\ storage = InitStorage

\* C17: the registry lookup is case-insensitive in the extension and depends
\* on nothing else: the converter and the content type of a job are those
\* registered for the final extension of outputKey's file name whatever its
\* letter case (".docx" and ".DOCX" select the Word entry, also when the name
\* carries ".pptx" before it; ".pptx" selects the PowerPoint entry), and none
\* for any other extension, whatever the bucket and the inputKey.
DotDOCX == <<".", "D", "O", "C", "X">>

C17_LookupCaseInsensitive ==
    (variant = "unified" /\ HasFields /\ job # NoJob) =>
        LET suffix == PathSuffix(body.obj["outputKey"])
        IN  /\ suffix \in {DotDocx, DotDOCX} =>
                 (job.func = "convert_to_docx" /\ job.mime = MimeDocx)
            /\ suffix = DotPptx =>
                 (job.func = "convert_to_pptx" /\ job.mime = MimePptx)
            /\ suffix \notin {DotDocx, DotDOCX, DotPptx} =>
                 (job.func = "" /\ job.mime = "")

\* a job whose outputKey ends in ".DOCX" was converted by the Word converter
\* and acknowledged
C17_Witness ==
    /\ variant = "unified"
    /\ Ended
    /\ HasFields
    /\ body.obj["outputKey"] = KeyOutDOCX
    /\ job.func = "convert_to_docx"
    /\ Succeeded("convert")
    /\ trace[Len(trace)] = AckCall

\* C18 (as claimed): a message published by send_job.py carries bucket,
\* inputKey and outputKey, and its outputKey has the extension of the requested
\* format, so the unified worker never drops it as an unsupported format: it
\* finds a converter for it.
C18_SendJobNeverUnsupported ==
    (variant = "unified" /\ body \in SendJobBodies /\ pc # "callback") =>
        /\ HasFields
        /\ job.func # ""
        /\ trace # <<NackDrop>>

\* C19 (as claimed): a message is acknowledged only if, during that delivery,
\* the converted output was uploaded to bucket/outputKey.
C19_AckOnlyAfterUpload ==
    \A i \in 1..Len(trace) :
        trace[i] = AckCall =>
            \E j \in 1..(i - 1) : trace[j] = Event("upload_file", "ok")

\* C19 (amended): a message is acknowledged only if, during that delivery,
\* either the converted output was uploaded to bucket/outputKey (the upload
\* succeeded before the acknowledgement and the object it stored is the one
\* under that key), or the call just before the acknowledgement reported that
\* the object does not exist (404).
C19_AckOnlyAfterUploadOr404 ==
    \A i \in 1..Len(trace) :
        trace[i] = AckCall =>
            \/ /\ \E j \in 1..(i - 1) : trace[j] = Event("upload_file", "ok")
               /\ Stored(storage, job.bucket, job.output_key)
               /\ \E u \in uploads :
                    /\ u.body = body
                    /\ u.object = ObjectAt(storage, job.bucket, job.output_key)
            \/ /\ i > 1
               /\ trace[i - 1].res = "404"

\* a delivery has been acknowledged after its first upload, with the object in
\* the store
C19_Witness ==
    /\ Ended
    /\ Succeeded("upload_file")
    /\ trace[Len(trace)] = AckCall
    /\ Stored(storage, job.bucket, job.output_key)
    /\ \E u \in uploads : u.body = body /\ ~u.again

\* C20 (as claimed): for every job that reaches the download step, the input
\* staging path and the output staging path are distinct.
C20_StagingPathsDistinct ==
    pc \in {"download", "convert", "upload", "cleanup"} =>
        job.input_path # job.output_path

====
